---- MODULE Spec2Model ----
(***************************************************************************)
(* Model of thunderstorm-downloader (src/main.py): a Thunderstore.io       *)
(* BepInEx mod downloader and installer.                                   *)
(*                                                                         *)
(* Strings are sequences of tokens.  A token is a piece of text that the   *)
(* program's substring operations never split: "BepInEx", "Pack" (so that  *)
(* BepInExPack is <<"BepInEx", "Pack">> and contains BepInEx, as the       *)
(* Python `in` and str.replace see it), the separators "/" and "\\", the   *)
(* directory names of the BepInEx layout and a few file names.             *)
(* os.sep is "/" (POSIX).                                                  *)
(*                                                                         *)
(* The file system is one map of absolute paths: fsFiles (path, content)    *)
(* and fsDirs (directories).  Packages are numbered: FW is the entry whose *)
(* name is BepInExPack, 1..NumMods are the other entries of the universe   *)
(* the mods file draws from.                                               *)
(***************************************************************************)
EXTENDS Integers, Sequences, FiniteSets, TLC

VARIABLES
    fsFiles,     \* files on disk: set of [path, by], by the package copied from
    fsDirs,      \* directories on disk: set of absolute paths
    mods_file,   \* the lines of the mods file, each split at SEP
    mods,        \* _read_mods: the set of regular packages requested, {} before
    bepinex_mod, \* _read_mods: TRUE iff a framework entry was supplied
    out_dir,     \* TRUE iff --out-dir was given (cache kept between runs)
    archive,     \* the archive the repository serves for each package
    run,         \* number of the current invocation of the program
    mainpc,      \* position of main: "read", "start", "framework", "pool", "exited"
    pc,          \* position of _download_and_install_mod for each package
    idx,         \* index of the install loop in downloaded_files
    installed,   \* the local `installed` of _install
    ret_dl,      \* the value _download returned
    results,     \* the tuple each task returned, <<>> while it has none
    gets,        \* HTTP GETs issued for each package in this run
    response,    \* what each GET of this run answered, "none" before
    copyLog,     \* history: every shutil.copy made in this run: [path, by, src, overwrote]
    installedBefore,  \* history: packages whose _install ran its loop to the end in an earlier run
    downloadedBefore, \* history: packages whose _download returned in an earlier run
    wasInstalled, \* what line 218 found: "unknown" before, then "yes" or "no"
    summary,     \* the summary line printed, <<>> while none was
    exitCode,    \* process exit status, -1 while running
    exitKind,    \* "running", "return" or "exception"
    pFile,       \* path resolver: the relative path given
    pIsBepinex,  \* path resolver: the is_bepinex flag given
    pResolved    \* path resolver: the result, <<>> before the call

vars == <<fsFiles, fsDirs, mods_file, mods, bepinex_mod, out_dir, archive, run,
          mainpc, pc, idx, installed, ret_dl, results, gets, response,
          copyLog, installedBefore, downloadedBefore, wasInstalled,
          summary, exitCode, exitKind, pFile, pIsBepinex, pResolved>>

runVars == <<fsFiles, fsDirs, mods_file, mods, bepinex_mod, out_dir, archive, run,
             mainpc, pc, idx, installed, ret_dl, results, gets, response,
             copyLog, installedBefore, downloadedBefore, wasInstalled,
             summary, exitCode, exitKind>>

pathVars == <<pFile, pIsBepinex, pResolved>>

histVars == <<installedBefore, downloadedBefore, wasInstalled>>

(***************************************************************************)
(* Bounds                                                                  *)
(***************************************************************************)
NumMods == 2
MaxRuns == 2
MaxPathLen == 5

(***************************************************************************)
(* Program constants                                                       *)
(***************************************************************************)
SEP == "-"
OS_SEP == "/"
BACKSLASH == "\\"
MOD_DIR_IGNORE == {"readme.md", "icon.png", "manifest.json", "changelog.md", "license"}
BEPINEX_PACKAGE_NAME == <<"BepInEx", "Pack">>
BEPINEX == <<"BepInEx">>
BEPINEX_PLUGINS_DIR == <<"plugins">>
BEPINEX_PATCHERS_DIR == <<"patchers">>
BEPINEX_CONFIG_DIR == <<"config">>

FW == 0
Mods == 1..NumMods
Packages == {FW} \cup Mods
GameDir == <<"GAME">>
OutDir == <<"OUT">>

(***************************************************************************)
(* Strings and paths                                                       *)
(***************************************************************************)
StartsWith(s, p) == Len(s) >= Len(p) /\ SubSeq(s, 1, Len(p)) = p

\* str.replace(old, new): left to right, non-overlapping, every occurrence
RECURSIVE Replace(_, _, _)
Replace(s, old, new) ==
    IF Len(s) < Len(old) THEN s
    ELSE IF SubSeq(s, 1, Len(old)) = old
         THEN new \o Replace(SubSeq(s, Len(old) + 1, Len(s)), old, new)
         ELSE <<Head(s)>> \o Replace(Tail(s), old, new)

\* str.index(tok), 1-based; 0 stands for ValueError
RECURSIVE IndexFrom(_, _, _)
IndexFrom(s, tok, i) ==
    IF i > Len(s) THEN 0
    ELSE IF s[i] = tok THEN i ELSE IndexFrom(s, tok, i + 1)

Index(s, tok) == IndexFrom(s, tok, 1)

\* str.rindex(tok), 1-based; 0 when absent
RECURSIVE RIndexFrom(_, _, _)
RIndexFrom(s, tok, i) ==
    IF i < 1 THEN 0
    ELSE IF s[i] = tok THEN i ELSE RIndexFrom(s, tok, i - 1)

RIndex(s, tok) == RIndexFrom(s, tok, Len(s))

\* `sub in s` for strings
Contains(s, sub) == \E i \in 1..(Len(s) - Len(sub) + 1) : SubSeq(s, i, i + Len(sub) - 1) = sub

\* os.path.join(a, b) on POSIX
Join(a, b) ==
    IF StartsWith(b, <<OS_SEP>>) THEN b
    ELSE IF a = <<>> \/ a[Len(a)] = OS_SEP THEN a \o b
    ELSE a \o <<OS_SEP>> \o b

\* os.path.dirname(p) on POSIX (for the paths without trailing separators)
Dirname(p) ==
    LET i == RIndex(p, OS_SEP)
    IN IF i = 0 THEN <<>> ELSE IF i = 1 THEN <<OS_SEP>> ELSE SubSeq(p, 1, i - 1)

\* os.path.basename(p) on POSIX
Basename(p) == SubSeq(p, RIndex(p, OS_SEP) + 1, Len(p))

\* str.lower() of a file name, on the names the archives use
LowerTok(t) ==
    CASE t = "README.md" -> "readme.md"
      [] t = "LICENSE" -> "license"
      [] t = "Manifest.json" -> "manifest.json"
      [] OTHER -> t

Lower(s) == [i \in 1..Len(s) |-> LowerTok(s[i])]

\* The directory segments of a relative path: every proper prefix ending
\* before a separator, as the name of its last segment
DirNames(file) ==
    { Basename(SubSeq(file, 1, i - 1)) : i \in {j \in 1..Len(file) : file[j] = OS_SEP} }

\* The ancestors os.makedirs creates, and the path itself
RECURSIVE Ancestors(_)
Ancestors(p) ==
    IF p = <<>> \/ p = <<OS_SEP>> THEN {}
    ELSE {p} \cup Ancestors(Dirname(p))

(***************************************************************************)
(* Mod (lines 29-76)                                                       *)
(***************************************************************************)
PkgTok == <<"m1", "m2", "m3", "m4", "m5">>

name(p) == IF p = FW THEN BEPINEX_PACKAGE_NAME ELSE <<PkgTok[p]>>

package_name(p) == <<"by", SEP>> \o name(p) \o <<SEP, "1.0">>

download_path(p) == Join(OutDir, package_name(p))

manifest_file(p) == Join(download_path(p), <<"manifest.json">>)

is_bepinex(p) == name(p) = BEPINEX_PACKAGE_NAME

\* Mod(*line.rstrip().split(SEP)): the line of package p in a mods file
Line(p) == [by |-> "by", name |-> name(p), version |-> "1.0"]

\* A line that names the framework package in another version
OtherFrameworkLine == [by |-> "by", name |-> BEPINEX_PACKAGE_NAME, version |-> "2.0"]

\* Mod.is_bepinex of a line
LineIsBepinex(l) == l.name = BEPINEX_PACKAGE_NAME

(***************************************************************************)
(* _read_mods (lines 83-100)                                               *)
(***************************************************************************)
\* Faulty variant: the test of line 89 left out, one framework entry popped
_read_mods_NoCheck(lines) ==
    LET all == {lines[i] : i \in DOMAIN lines}
        bepinex_mods == {m \in all : LineIsBepinex(m)}
    IN [raised |-> FALSE,
        mods |-> {p \in Mods : Line(p) \in all},
        bepinex_mod |-> bepinex_mods # {}]

\* The set comprehension of line 86 collapses equal lines; more than one
\* framework entry in the set raises ValueError, else the framework entry
\* is taken out of the set
_read_mods(lines) ==
    LET all == {lines[i] : i \in DOMAIN lines}
        bepinex_mods == {m \in all : LineIsBepinex(m)}
    IN IF Cardinality(bepinex_mods) > 1
       THEN [raised |-> TRUE, mods |-> {}, bepinex_mod |-> FALSE]
       ELSE [raised |-> FALSE,
             mods |-> {p \in Mods : Line(p) \in all},
             bepinex_mod |-> bepinex_mods # {}]

\* os.path.exists
FilePaths(files) == {f.path : f \in files}

PathExists(files, dirs, p) == p \in FilePaths(files) \/ p \in dirs

\* Faulty variant: the cache test looks for the manifest in place of the directory
exists_manifest(files, dirs, p) == PathExists(files, dirs, manifest_file(p))

exists(files, dirs, p) == PathExists(files, dirs, download_path(p))

(***************************************************************************)
(* The archives the repository can serve: the relative paths of the files  *)
(* of each zip, in the order glob lists them.  Archive 0 is the framework  *)
(* pack, 1..3 are layouts that mods on Thunderstore use.                   *)
(***************************************************************************)
FrameworkArchive == 0
ModArchives == {1, 2, 3}

ArchiveFiles(a) ==
    CASE a = FrameworkArchive ->
           << <<"BepInEx", "Pack", "/", "BepInEx", "/", "core", "/", "x">>,
              <<"BepInEx", "Pack", "/", "winhttp">>,
              <<"BepInEx", "Pack", "/", "changelog.md">>,
              <<"manifest.json">> >>
      [] a = 1 ->
           << <<"x">>, <<"manifest.json">>, <<"README.md">>,
              <<"plugins", "/", "LICENSE">> >>
      [] a = 2 ->
           << <<"BepInEx", "/", "patchers", "/", "p">>,
              <<"config", "/", "c">> >>
      [] OTHER ->
           << <<"lib", "/", "y">>, <<"manifest.json">> >>

\* data["dependencies"] of the archive's manifest.json mentions BepInEx
ManifestDependsOnBepinex(a) == a = 1

\* Mod.depends_on_bepinex: "True", "False" or "raise" (open() of a missing
\* manifest)
depends_on_bepinex(a) ==
    IF \E i \in 1..Len(ArchiveFiles(a)) :
          \E d \in DirNames(ArchiveFiles(a)[i]) : Contains(d, BEPINEX)
    THEN "True"
    ELSE IF ~(\E i \in 1..Len(ArchiveFiles(a)) : ArchiveFiles(a)[i] = <<"manifest.json">>)
         THEN "raise"
         ELSE IF ManifestDependsOnBepinex(a) THEN "True" ELSE "False"

\* Faulty variant: the game directory tested in place of its BepInEx directory
_is_bepinex_installed_GameDir(files, dirs) == PathExists(files, dirs, GameDir)

_is_bepinex_installed(files, dirs) == PathExists(files, dirs, Join(GameDir, BEPINEX))

(***************************************************************************)
(* _get_file_install_path (lines 113-132)                                  *)
(***************************************************************************)
RecognizedSubDirs == {BEPINEX_PLUGINS_DIR, BEPINEX_PATCHERS_DIR, BEPINEX_CONFIG_DIR}

_get_file_install_path(game_dir, file, isBepinex) ==
    IF isBepinex
    THEN Join(game_dir, Replace(file, BEPINEX_PACKAGE_NAME \o <<OS_SEP>>, <<>>))
    ELSE LET cleaned == Replace(Replace(file, <<BACKSLASH>>, <<OS_SEP>>),
                                BEPINEX \o <<OS_SEP>>, <<>>)
             i == Index(cleaned, OS_SEP)
             placed == IF i = 0
                       THEN Join(BEPINEX_PLUGINS_DIR, cleaned)
                       ELSE IF SubSeq(cleaned, 1, i - 1) \notin RecognizedSubDirs
                            THEN Join(BEPINEX_PLUGINS_DIR, cleaned)
                            ELSE cleaned
         IN Join(Join(game_dir, BEPINEX), placed)

(***************************************************************************)
(* _download (lines 103-110)                                               *)
(***************************************************************************)
\* What session.get and raise_for_status can do: answer 2xx with the zip,
\* answer a non-success status (HTTPError), or fail below HTTP
\* (requests.ConnectionError, not an HTTPError)
Responses == {"ok", "http_error", "net_error"}

\* ZipFile.extractall(download_path): creates the directory with the first
\* member it writes; the members stay private to the package
Extract(dirs, p, a) ==
    IF ArchiveFiles(a) = <<>> THEN dirs ELSE dirs \cup {download_path(p)}

(***************************************************************************)
(* _install (lines 135-156)                                                *)
(***************************************************************************)
\* Faulty variant: the guard of line 136 left out
Eligible_NoGuard(p, a) == "install"

\* line 136: the guard that skips a package
Eligible(p, a) ==
    LET d == depends_on_bepinex(a)
    IN IF d = "raise" THEN "raise"
       ELSE IF d = "False" /\ ~is_bepinex(p) THEN "skip" ELSE "install"

\* Faulty variant: the base name compared without .lower()
RECURSIVE FilterIgnored_CaseSensitive(_)
FilterIgnored_CaseSensitive(fs) ==
    IF fs = <<>> THEN <<>>
    ELSE IF \E t \in MOD_DIR_IGNORE : Basename(Head(fs)) = <<t>>
         THEN FilterIgnored_CaseSensitive(Tail(fs))
         ELSE <<Head(fs)>> \o FilterIgnored_CaseSensitive(Tail(fs))

\* lines 140-145: the files glob lists, without the ignore-list (every
\* member of an archive is a file: directories are implied)
RECURSIVE FilterIgnored(_)
FilterIgnored(fs) ==
    IF fs = <<>> THEN <<>>
    ELSE IF \E t \in MOD_DIR_IGNORE : Lower(Basename(Head(fs))) = <<t>>
         THEN FilterIgnored(Tail(fs))
         ELSE <<Head(fs)>> \o FilterIgnored(Tail(fs))

downloaded_files(a) == FilterIgnored(ArchiveFiles(a))

file_install_path(p, a, i) ==
    _get_file_install_path(GameDir, downloaded_files(a)[i], is_bepinex(p))

\* Faulty variant: the test of line 149 left out
DestinationExists_Never(files, dirs, path) == FALSE

\* line 149: the test that guards the copy
DestinationExists(files, dirs, path) == PathExists(files, dirs, path)

\* line 153, shutil.copy: writes the destination, replacing what is there
CopyFile(files, path, p) ==
    {f \in files : f.path # path} \cup {[path |-> path, by |-> p]}

\* line 151, os.makedirs(dirname, exist_ok=True)
MakeDirs(dirs, path) == dirs \cup Ancestors(Dirname(path))

(***************************************************************************)
(* Initial states: the arguments and the disk main is started on           *)
(***************************************************************************)
BepInExDir == Join(GameDir, BEPINEX)
PluginsDir == Join(BepInExDir, BEPINEX_PLUGINS_DIR)

\* Game directories main can be given: without the framework, with it, and
\* with it and a plugin file that is already in place
InitialGames ==
    { [files |-> {}, dirs |-> {GameDir}],
      [files |-> {}, dirs |-> {GameDir, BepInExDir}],
      [files |-> {[path |-> Join(PluginsDir, <<"x">>), by |-> -1]},
       dirs |-> {GameDir, BepInExDir, PluginsDir}] }

NoTuple == <<>>

\* The lines of the first k regular packages
RegularLines(k) == [i \in 1..k |-> Line(i)]

\* Mods files main can be given.  The regular packages are interchangeable,
\* so a file holds the first k of them, with or without the framework's
\* line; then the files with a second framework line: the same line twice,
\* and two different versions, alone and around a regular package
ModsFiles ==
    {RegularLines(k) : k \in 0..NumMods}
        \cup {<<Line(FW)>> \o RegularLines(k) : k \in 0..NumMods}
        \cup { <<Line(FW), Line(FW)>>,
               <<Line(FW), OtherFrameworkLine>>,
               <<Line(FW), Line(1), OtherFrameworkLine>> }

\* The packages a mods file names
Requested(lines) == {p \in Packages : \E i \in DOMAIN lines : lines[i] = Line(p)}

\* The archives of the requested regular packages are taken in
\* non-decreasing order; with --out-dir any subset of the requested
\* packages may be cached, a temporary out directory starts empty
RunInit ==
    /\ mods_file \in ModsFiles
    /\ mods = {}
    /\ bepinex_mod = FALSE
    /\ out_dir \in BOOLEAN
    /\ archive \in {a \in [Packages -> {FrameworkArchive} \cup ModArchives] :
                     /\ a[FW] = FrameworkArchive
                     /\ \A m \in Mods : a[m] \in ModArchives
                     /\ \A m \in Mods \ Requested(mods_file) : a[m] = 1
                     /\ \A m, n \in Mods \cap Requested(mods_file) :
                            m <= n => a[m] <= a[n]}
    /\ \E g \in InitialGames :
         \E cached \in (IF out_dir THEN SUBSET Requested(mods_file) ELSE {{}}) :
            /\ fsFiles = g.files
            /\ fsDirs = g.dirs \cup {OutDir} \cup {download_path(p) : p \in cached}
    /\ run = 1
    /\ mainpc = "read"
    /\ pc = [p \in Packages |-> "idle"]
    /\ idx = [p \in Packages |-> 0]
    /\ installed = [p \in Packages |-> FALSE]
    /\ ret_dl = [p \in Packages |-> 0]
    /\ results = [p \in Packages |-> NoTuple]
    /\ gets = [p \in Packages |-> 0]
    /\ response = [p \in Packages |-> "none"]
    /\ copyLog = {}
    /\ installedBefore = {}
    /\ downloadedBefore = {}
    /\ wasInstalled = "unknown"
    /\ summary = NoTuple
    /\ exitCode = -1
    /\ exitKind = "running"

PathIdle ==
    /\ pFile = <<>>
    /\ pIsBepinex = FALSE
    /\ pResolved = <<>>

Init == RunInit /\ PathIdle

(***************************************************************************)
(* _download_and_install_mod (lines 159-170), one step per blocking call   *)
(***************************************************************************)
\* Who runs the task of package p: main itself for the framework (line
\* 221), a pool thread for the others (line 178).  ThreadPoolExecutor()
\* has min(32, cpu_count + 4) >= 5 workers, more than the packages here, so
\* every task of the pool may run at once.
Scheduled(p) ==
    \/ p = FW /\ mainpc = "framework"
    \/ p \in mods /\ mainpc = "pool"

\* _download up to session.get: the cache test, then the request
DownloadBegin(p) ==
    /\ Scheduled(p)
    /\ pc[p] = "idle"
    /\ IF exists(fsFiles, fsDirs, p)
       THEN /\ ret_dl' = [ret_dl EXCEPT ![p] = 0]
            /\ pc' = [pc EXCEPT ![p] = "install"]
            /\ idx' = [idx EXCEPT ![p] = 1]
            /\ gets' = gets
       ELSE /\ gets' = [gets EXCEPT ![p] = @ + 1]
            /\ pc' = [pc EXCEPT ![p] = "get"]
            /\ UNCHANGED <<ret_dl, idx>>
    /\ UNCHANGED <<fsFiles, fsDirs, mods_file, mods, bepinex_mod, out_dir,
                   archive, run,
                   mainpc, installed, results, response, copyLog, histVars,
                   summary, exitCode, exitKind, pathVars>>

\* Faulty variant: after the HTTPError is caught the task goes on to
\* _install in place of returning at line 168
DownloadEnd_InstallAfterError(p) ==
    /\ Scheduled(p)
    /\ pc[p] = "get"
    /\ \E r \in Responses :
         /\ response' = [response EXCEPT ![p] = r]
         /\ CASE r = "ok" ->
                   /\ fsDirs' = Extract(fsDirs, p, archive[p])
                   /\ ret_dl' = [ret_dl EXCEPT ![p] = 1]
                   /\ pc' = [pc EXCEPT ![p] = "install"]
                   /\ idx' = [idx EXCEPT ![p] = 1]
              [] r = "http_error" ->
                   /\ pc' = [pc EXCEPT ![p] = "install"]
                   /\ idx' = [idx EXCEPT ![p] = 1]
                   /\ UNCHANGED <<fsDirs, ret_dl>>
              [] OTHER ->
                   /\ pc' = [pc EXCEPT ![p] = "raised"]
                   /\ UNCHANGED <<fsDirs, ret_dl, idx>>
    /\ UNCHANGED <<fsFiles, mods_file, mods, bepinex_mod, out_dir, archive, run,
                   mainpc, installed, results, gets, copyLog, histVars,
                   summary, exitCode, exitKind, pathVars>>

\* The answer: extract and return 1, or HTTPError caught at line 166, or
\* an exception line 166 does not catch
DownloadEnd(p) ==
    /\ Scheduled(p)
    /\ pc[p] = "get"
    /\ \E r \in Responses :
         /\ response' = [response EXCEPT ![p] = r]
         /\ CASE r = "ok" ->
                   /\ fsDirs' = Extract(fsDirs, p, archive[p])
                   /\ ret_dl' = [ret_dl EXCEPT ![p] = 1]
                   /\ pc' = [pc EXCEPT ![p] = "install"]
                   /\ idx' = [idx EXCEPT ![p] = 1]
                   /\ results' = results
              [] r = "http_error" ->
                   /\ results' = [results EXCEPT ![p] = <<0, 0, 1>>]
                   /\ pc' = [pc EXCEPT ![p] = "done"]
                   /\ UNCHANGED <<fsDirs, ret_dl, idx>>
              [] OTHER ->
                   /\ pc' = [pc EXCEPT ![p] = "raised"]
                   /\ UNCHANGED <<fsDirs, ret_dl, results, idx>>
    /\ UNCHANGED <<fsFiles, mods_file, mods, bepinex_mod, out_dir,
                   archive, run,
                   mainpc, installed, gets, copyLog, histVars,
                   summary, exitCode, exitKind, pathVars>>

\* Faulty variant: a package that copied nothing reported as an error
Returned_NotInstalledIsError(dl, inst) ==
    <<dl, IF inst THEN 1 ELSE 0, IF inst THEN 0 ELSE 1>>

\* The tuple line 170 returns when _install returns
Returned(dl, inst) == <<dl, IF inst THEN 1 ELSE 0, 0>>

\* _install up to the test of a destination: on entry the dependency guard
\* (line 136) and the file list (lines 140-146), then for the next file the
\* path and the test of lines 148-150; past the last file, lines 155-156
InstallCheck(p) ==
    /\ Scheduled(p)
    /\ pc[p] = "install"
    /\ LET a == archive[p]
           i == idx[p]
           n == Len(downloaded_files(a))
       IN IF i = 1 /\ Eligible(p, a) = "raise"
          THEN /\ pc' = [pc EXCEPT ![p] = "raised"]
               /\ UNCHANGED <<results, idx>>
          ELSE IF i = 1 /\ Eligible(p, a) = "skip"
          THEN /\ results' = [results EXCEPT ![p] = Returned(ret_dl[p], FALSE)]
               /\ pc' = [pc EXCEPT ![p] = "done"]
               /\ idx' = idx
          ELSE IF i > n
          THEN /\ results' = [results EXCEPT ![p] = Returned(ret_dl[p], installed[p])]
               /\ pc' = [pc EXCEPT ![p] = "done"]
               /\ idx' = idx
          ELSE IF ~DestinationExists(fsFiles, fsDirs, file_install_path(p, a, i))
          THEN /\ pc' = [pc EXCEPT ![p] = "copy"]
               /\ UNCHANGED <<results, idx>>
          ELSE IF i = n
          THEN /\ results' = [results EXCEPT ![p] = Returned(ret_dl[p], installed[p])]
               /\ pc' = [pc EXCEPT ![p] = "done"]
               /\ idx' = idx
          ELSE /\ idx' = [idx EXCEPT ![p] = i + 1]
               /\ UNCHANGED <<results, pc>>
    /\ UNCHANGED <<fsFiles, fsDirs, mods_file, mods, bepinex_mod, out_dir,
                   archive, run,
                   mainpc, installed, ret_dl, gets, response, copyLog, histVars,
                   summary, exitCode, exitKind, pathVars>>

\* _install, lines 151-154: make the directories and copy; after the last
\* file, lines 155-156
InstallCopy(p) ==
    /\ Scheduled(p)
    /\ pc[p] = "copy"
    /\ LET path == file_install_path(p, archive[p], idx[p])
       IN /\ copyLog' = copyLog \cup
                 {[path |-> path, by |-> p,
                   src |-> downloaded_files(archive[p])[idx[p]],
                   overwrote |-> PathExists(fsFiles, fsDirs, path)]}
          /\ fsDirs' = MakeDirs(fsDirs, path)
          /\ fsFiles' = CopyFile(fsFiles, path, p)
    /\ installed' = [installed EXCEPT ![p] = TRUE]
    /\ IF idx[p] = Len(downloaded_files(archive[p]))
       THEN /\ results' = [results EXCEPT ![p] = Returned(ret_dl[p], TRUE)]
            /\ pc' = [pc EXCEPT ![p] = "done"]
            /\ idx' = idx
       ELSE /\ idx' = [idx EXCEPT ![p] = @ + 1]
            /\ pc' = [pc EXCEPT ![p] = "install"]
            /\ results' = results
    /\ UNCHANGED <<mods_file, mods, bepinex_mod, out_dir,
                   archive, run,
                   mainpc, ret_dl, gets, response, histVars,
                   summary, exitCode, exitKind, pathVars>>

(***************************************************************************)
(* main (lines 184-235) and _download_and_install_mods (lines 173-181)     *)
(***************************************************************************)
\* Leaving the `with` of line 213: a temporary out directory is deleted
TempDirCleanup(dirs) ==
    IF out_dir THEN dirs ELSE dirs \ {download_path(p) : p \in Packages}

Exit(code, kind) ==
    /\ mainpc' = "exited"
    /\ exitCode' = code
    /\ exitKind' = kind
    /\ fsDirs' = TempDirCleanup(fsDirs)

\* Faulty variant: the framework install of lines 219-224 left out
FrameworkBranch_NoInstall(isInstalled, supplied) ==
    IF ~isInstalled /\ ~supplied THEN "abort" ELSE "pool"

\* Faulty variant: a supplied framework entry installed whether or not the
\* framework is there
FrameworkBranch_AlwaysInstall(isInstalled, supplied) ==
    IF supplied THEN "framework"
    ELSE IF isInstalled THEN "pool" ELSE "abort"

\* lines 218-231: what main does about the framework
FrameworkBranch(isInstalled, supplied) ==
    IF ~isInstalled
    THEN IF supplied THEN "framework" ELSE "abort"
    ELSE "pool"

\* line 211: the mods file is read before the session and the out
\* directory are set up; the ValueError of line 90 is not caught
MainRead ==
    /\ mainpc = "read"
    /\ LET r == _read_mods(mods_file)
       IN IF r.raised
          THEN /\ mainpc' = "exited"
               /\ exitCode' = 1
               /\ exitKind' = "exception"
               /\ UNCHANGED <<mods, bepinex_mod>>
          ELSE /\ mainpc' = "start"
               /\ mods' = r.mods
               /\ bepinex_mod' = r.bepinex_mod
               /\ UNCHANGED <<exitCode, exitKind>>
    /\ UNCHANGED <<fsFiles, fsDirs, mods_file, out_dir, archive, run,
                   pc, idx, installed, ret_dl, results, gets, response, copyLog,
                   histVars, summary, pathVars>>

MainStart ==
    /\ mainpc = "start"
    /\ LET b == FrameworkBranch(_is_bepinex_installed(fsFiles, fsDirs), bepinex_mod)
       IN IF b = "abort"
          THEN Exit(1, "return")
          ELSE /\ mainpc' = b
               /\ UNCHANGED <<fsDirs, exitCode, exitKind>>
    /\ wasInstalled' = IF _is_bepinex_installed(fsFiles, fsDirs) THEN "yes" ELSE "no"
    /\ UNCHANGED <<fsFiles, mods_file, mods, bepinex_mod, out_dir,
                   archive, run,
                   pc, idx, installed, ret_dl, results, gets, response, copyLog,
                   installedBefore, downloadedBefore, summary, pathVars>>

\* Faulty variant: the result of the framework task ignored
FrameworkFailed_Ignored(res) == FALSE

\* lines 221-224: the test of the framework task's result
FrameworkFailed(res) == res[3] = 1

MainAfterFramework ==
    /\ mainpc = "framework"
    /\ pc[FW] \in {"done", "raised"}
    /\ IF pc[FW] = "raised"
       THEN Exit(1, "exception")
       ELSE IF FrameworkFailed(results[FW])
            THEN Exit(1, "return")
            ELSE /\ mainpc' = "pool"
                 /\ UNCHANGED <<fsDirs, exitCode, exitKind>>
    /\ UNCHANGED <<fsFiles, mods_file, mods, bepinex_mod, out_dir,
                   archive, run,
                   pc, idx, installed, ret_dl, results, gets, response, copyLog, histVars,
                   summary, pathVars>>

RECURSIVE SumField(_, _, _)
SumField(res, ms, k) ==
    IF ms = {} THEN 0
    ELSE LET m == CHOOSE x \in ms : TRUE
         IN res[m][k] + SumField(res, ms \ {m}, k)

\* Faulty variant: the framework's task counted with the pool's
Summarize_WithFramework(res, ms) ==
    LET all == ms \cup (IF res[FW] # NoTuple THEN {FW} ELSE {})
    IN <<SumField(res, all, 1), SumField(res, all, 2),
         SumField(res, all, 3), Cardinality(all)>>

\* lines 179-181: the three sums and the total of the summary line
Summarize(res, ms) ==
    <<SumField(res, ms, 1), SumField(res, ms, 2), SumField(res, ms, 3), Cardinality(ms)>>

\* lines 177-181 and 235: the pool is left when every task has ended; the
\* first exception of a task is raised again when results is read, and no
\* result at all makes the unpacking of line 179 raise ValueError
PoolJoin ==
    /\ mainpc = "pool"
    /\ \A m \in mods : pc[m] \in {"done", "raised"}
    /\ IF \E m \in mods : pc[m] = "raised"
       THEN Exit(1, "exception") /\ summary' = summary
       ELSE IF mods = {}
            THEN Exit(1, "exception") /\ summary' = summary
            ELSE Exit(0, "return") /\ summary' = Summarize(results, mods)
    /\ UNCHANGED <<fsFiles, mods_file, mods, bepinex_mod, out_dir,
                   archive, run,
                   pc, idx, installed, ret_dl, results, gets, response, copyLog, histVars,
                   pathVars>>

\* lines 238-239: the program is started again with the same arguments on
\* the disk the previous run left
Rerun ==
    /\ mainpc = "exited"
    /\ run < MaxRuns
    /\ run' = run + 1
    /\ mainpc' = "read"
    /\ pc' = [p \in Packages |-> "idle"]
    /\ idx' = [p \in Packages |-> 0]
    /\ installed' = [p \in Packages |-> FALSE]
    /\ ret_dl' = [p \in Packages |-> 0]
    /\ results' = [p \in Packages |-> NoTuple]
    /\ gets' = [p \in Packages |-> 0]
    /\ response' = [p \in Packages |-> "none"]
    /\ summary' = NoTuple
    /\ exitCode' = -1
    /\ exitKind' = "running"
    /\ copyLog' = {}
    /\ installedBefore' = installedBefore \cup
          {p \in Packages : /\ pc[p] = "done"
                            /\ results[p][3] = 0
                            /\ Eligible(p, archive[p]) = "install"}
    /\ downloadedBefore' = downloadedBefore \cup
          {p \in Packages : pc[p] = "done" /\ results[p][3] = 0}
    /\ wasInstalled' = "unknown"
    /\ mods' = {}
    /\ bepinex_mod' = FALSE
    /\ UNCHANGED <<fsFiles, fsDirs, mods_file, out_dir, archive, pathVars>>

Next ==
    \/ MainRead
    \/ MainStart
    \/ MainAfterFramework
    \/ PoolJoin
    \/ Rerun
    \/ \E p \in Packages : DownloadBegin(p)
    \/ \E p \in Packages : DownloadEnd(p)
    \/ \E p \in Packages : InstallCheck(p)
    \/ \E p \in Packages : InstallCopy(p)

Spec == Init /\ [][Next]_vars

(***************************************************************************)
(* The path resolver alone: _get_file_install_path applied to every        *)
(* relative path of at most MaxPathLen tokens                              *)
(***************************************************************************)
PathTokens == {"BepInEx", "Pack", "plugins", "patchers", "config", "x", OS_SEP, BACKSLASH}

\* What glob yields: no leading, trailing or doubled separator
RelPaths ==
    {f \in UNION {[1..n -> PathTokens] : n \in 1..MaxPathLen} :
        /\ f[1] # OS_SEP
        /\ f[Len(f)] # OS_SEP
        /\ \A i \in 1..(Len(f) - 1) : ~(f[i] = OS_SEP /\ f[i + 1] = OS_SEP)}

RunIdle ==
    /\ fsFiles = {}
    /\ fsDirs = {GameDir, OutDir}
    /\ mods_file = <<>>
    /\ mods = {}
    /\ bepinex_mod = FALSE
    /\ out_dir = FALSE
    /\ archive = [p \in Packages |-> IF p = FW THEN FrameworkArchive ELSE 1]
    /\ run = 1
    /\ mainpc = "exited"
    /\ pc = [p \in Packages |-> "idle"]
    /\ idx = [p \in Packages |-> 0]
    /\ installed = [p \in Packages |-> FALSE]
    /\ ret_dl = [p \in Packages |-> 0]
    /\ results = [p \in Packages |-> NoTuple]
    /\ gets = [p \in Packages |-> 0]
    /\ response = [p \in Packages |-> "none"]
    /\ copyLog = {}
    /\ installedBefore = {}
    /\ downloadedBefore = {}
    /\ wasInstalled = "unknown"
    /\ summary = NoTuple
    /\ exitCode = 1
    /\ exitKind = "return"

InitPath ==
    /\ RunIdle
    /\ pFile \in RelPaths
    /\ pIsBepinex \in BOOLEAN
    /\ pResolved = <<>>

ResolvePath ==
    /\ pResolved = <<>>
    /\ pResolved' = _get_file_install_path(GameDir, pFile, pIsBepinex)
    /\ UNCHANGED <<runVars, pFile, pIsBepinex>>

NextPath == ResolvePath

SpecPath == InitPath /\ [][NextPath]_vars

(***************************************************************************)
(* Claims                                                                  *)
(***************************************************************************)
DownloadFailed(p) == response[p] \in {"http_error", "net_error"}

\* main reached line 233 in this run
PoolEntered ==
    \/ mainpc = "pool"
    \/ /\ mainpc = "exited"
       /\ \/ wasInstalled = "yes"
          \/ wasInstalled = "no" /\ pc[FW] = "done" /\ results[FW][3] = 0

CopiedBy(p) == {e \in copyLog : e.by = p}

InstallPaths(p) ==
    {file_install_path(p, archive[p], i) : i \in 1..Len(downloaded_files(archive[p]))}

\* C1: when the download of one regular package fails (a network failure or
\* a non-success HTTP status), every other package's task still runs to its
\* end, the batch prints its summary line and the process exits with 0.
C1_FailureIsolation ==
    (mainpc = "exited" /\ PoolEntered /\ \E m \in mods : DownloadFailed(m))
        => /\ \A n \in mods : ~DownloadFailed(n) => pc[n] = "done"
           /\ summary # NoTuple
           /\ exitCode = 0

\* C2: install never overwrites: no copy was made onto a path at which
\* something existed at the moment of the copy, and no path was written
\* more than once.
C2_NeverOverwrites ==
    /\ \A e \in copyLog : ~e.overwrote
    /\ \A e, f \in copyLog : e.path = f.path => e.by = f.by

\* C3: framework first: when line 218 found no framework directory and a
\* framework descriptor was supplied, no regular package's fetch has begun
\* unless the framework's fetch and install have both completed.
C3_FrameworkFirst ==
    (wasInstalled = "no" /\ bepinex_mod)
        => \A m \in Mods : (pc[m] # "idle" \/ gets[m] > 0)
                               => pc[FW] = "done" /\ results[FW][3] = 0

C3_Witness ==
    /\ wasInstalled = "no" /\ bepinex_mod
    /\ pc[FW] = "done" /\ results[FW] = <<1, 1, 0>>
    /\ \E m \in mods : pc[m] = "get"

FrameworkTaskFailed ==
    \/ pc[FW] = "raised"
    \/ pc[FW] = "done" /\ results[FW][3] = 1

\* C4: fatal framework conditions: when line 218 found no framework
\* directory and either no descriptor was supplied or the framework's
\* fetch+install failed, no regular package is fetched or installed and the
\* run, once ended, has exit code 1.
C4_FatalFramework ==
    (wasInstalled = "no" /\ (~bepinex_mod \/ FrameworkTaskFailed))
        => /\ \A m \in Mods : pc[m] = "idle" /\ gets[m] = 0 /\ CopiedBy(m) = {}
           /\ mainpc = "exited" => exitCode = 1
           /\ mainpc \in {"framework", "exited"}

C4_Witness ==
    /\ wasInstalled = "no" /\ bepinex_mod
    /\ results[FW] = <<0, 0, 1>>
    /\ mods # {}
    /\ mainpc = "exited" /\ exitCode = 1

\* The scenario of C5: no framework in the game directory, a framework
\* entry and two regular entries that both depend on the framework, nothing
\* cached, all three downloads succeed, and the run has ended.
C5_Scenario ==
    /\ wasInstalled = "no" /\ bepinex_mod
    /\ mods = {1, 2}
    /\ \A m \in mods : Eligible(m, archive[m]) = "install"
    /\ \A p \in mods \cup {FW} : ret_dl[p] = 1
    /\ mainpc = "exited"

C6_SummaryAggregation ==
    (mainpc = "exited" /\ PoolEntered /\ mods # {})
        => /\ summary = << Cardinality({m \in mods : response[m] = "ok"}),
                           Cardinality({m \in mods : CopiedBy(m) # {}}),
                           Cardinality({m \in mods : DownloadFailed(m)}),
                           Cardinality(mods) >>
           /\ exitCode = 0

\* Parts of C7 (fetch idempotence): exists is true exactly when the
\* extraction directory is on disk; a fetch of a descriptor that exists
\* issues no GET, changes nothing on disk and returns 0; no descriptor is
\* requested twice in a run; and with the out directory kept, a descriptor
\* whose fetch returned in an earlier run is never requested again.
C7_ExistsIffExtracted ==
    \A p \in Packages : exists(fsFiles, fsDirs, p) <=> download_path(p) \in fsDirs

C7_CachedFetchIsNoOp ==
    \A p \in Packages :
        (pc[p] = "idle" /\ pc'[p] # "idle" /\ download_path(p) \in fsDirs)
            => /\ gets' = gets
               /\ fsFiles' = fsFiles /\ fsDirs' = fsDirs
               /\ ret_dl'[p] = 0
               /\ pc'[p] = "install"

C7_OneGetPerRun == \A p \in Packages : gets[p] <= 1

C7_NoSecondFetch ==
    \A p \in downloadedBefore :
        out_dir => /\ gets[p] = 0
                   /\ pc[p] \notin {"idle", "get"} => ret_dl[p] = 0

\* C7 (the four parts together): exists tracks the extraction directory,
\* a fetch of an existing descriptor is a no-op returning 0, at most one GET
\* per descriptor in a run, and no second GET after a fetch that returned.
C7_FetchIdempotent ==
    /\ [](C7_ExistsIffExtracted /\ C7_OneGetPerRun /\ C7_NoSecondFetch)
    /\ [][C7_CachedFetchIsNoOp]_vars

C7_Witness ==
    \E p \in downloadedBefore :
        /\ out_dir
        /\ pc[p] = "install" /\ ret_dl[p] = 0 /\ gets[p] = 0

\* C8: install idempotence: the install of a package whose install ran to
\* its end in an earlier run copies no file and returns 0.
C8_InstallIdempotent ==
    \A p \in installedBefore :
        /\ CopiedBy(p) = {}
        /\ pc[p] # "copy"
        /\ pc[p] = "done" /\ results[p][3] = 0 => results[p][2] = 0

C8_Witness ==
    \E p \in installedBefore :
        /\ pc[p] = "done" /\ results[p][3] = 0 /\ results[p][2] = 0
        /\ InstallPaths(p) # {}

\* A relative path as the sequence of its segments, and back
RECURSIVE Segments(_)
Segments(f) ==
    LET i == Index(f, OS_SEP)
    IN IF i = 0 THEN <<f>>
       ELSE <<SubSeq(f, 1, i - 1)>> \o Segments(SubSeq(f, i + 1, Len(f)))

RECURSIVE Unsegment(_)
Unsegment(segs) ==
    IF Len(segs) = 1 THEN segs[1]
    ELSE segs[1] \o <<OS_SEP>> \o Unsegment(Tail(segs))

\* The paths the two resolver claims speak of: sequences of non-empty
\* segments separated by os.sep
SegmentPath(f) == \A i \in 1..Len(f) : f[i] # BACKSLASH

\* The rule of C9: drop a leading BepInEx directory segment, and only a
\* leading one; keep the path when its first directory is plugins, patchers
\* or config, else put it under plugins
C9_Rule(f) ==
    LET segs == Segments(f)
        rest == IF Len(segs) > 1 /\ segs[1] = BEPINEX THEN Tail(segs) ELSE segs
        placed == IF Len(rest) > 1 /\ rest[1] \in RecognizedSubDirs
                  THEN rest
                  ELSE <<BEPINEX_PLUGINS_DIR>> \o rest
    IN GameDir \o <<OS_SEP>> \o BEPINEX \o <<OS_SEP>> \o Unsegment(placed)

\* C9: path resolution for a non-framework archive: the resolver's result
\* equals the rule for every relative path.
C9_RegularPathRule ==
    (pResolved # <<>> /\ ~pIsBepinex /\ SegmentPath(pFile))
        => pResolved = C9_Rule(pFile)

\* The rule of C10: drop the leading BepInExPack segment, and only that
\* segment, and join the rest under the game directory
C10_Rule(f) ==
    LET segs == Segments(f)
        rest == IF Len(segs) > 1 /\ segs[1] = BEPINEX_PACKAGE_NAME THEN Tail(segs) ELSE segs
    IN GameDir \o <<OS_SEP>> \o Unsegment(rest)

\* C10: path resolution for the framework archive: the resolver's result
\* equals the rule for every relative path.
C10_FrameworkPathRule ==
    (pResolved # <<>> /\ pIsBepinex /\ SegmentPath(pFile))
        => pResolved = C10_Rule(pFile)

\* The base name of a path is on the ignore-list, compared case-insensitively
IgnoredName(f) == \E t \in MOD_DIR_IGNORE : Lower(Basename(f)) = <<t>>

FrameworkLines == {i \in DOMAIN mods_file : LineIsBepinex(mods_file[i])}

\* The entries those lines make: equal lines are one entry
FrameworkEntries == {mods_file[i] : i \in FrameworkLines}

\* The run ended in _read_mods: an uncaught exception before line 213, no
\* request sent and no task begun
FatalInputError ==
    /\ mainpc # "read"
         => mainpc = "exited" /\ exitKind = "exception" /\ exitCode = 1
    /\ wasInstalled = "unknown"
    /\ \A p \in Packages : gets[p] = 0 /\ pc[p] = "idle"
    /\ copyLog = {}

\* C12 as claimed: every mods file in which two or more lines name the
\* framework package makes _read_mods raise a fatal input error, before any
\* HTTP request and before any file is installed.
C12_MultipleFrameworkLines == Cardinality(FrameworkLines) >= 2 => FatalInputError

\* C12 as amended: every mods file with two or more different entries that
\* name the framework package makes _read_mods raise a fatal input error,
\* before any HTTP request and before any file is installed; lines that
\* are equal are one entry and raise nothing.
C12_MultipleFrameworkEntries ==
    /\ Cardinality(FrameworkEntries) >= 2 => FatalInputError
    /\ (Cardinality(FrameworkEntries) < 2 /\ mainpc = "exited")
          => wasInstalled # "unknown"

C12_Witness ==
    /\ mods_file = <<Line(FW), Line(1), OtherFrameworkLine>>
    /\ mainpc = "exited" /\ exitKind = "exception" /\ exitCode = 1
    /\ gets = [p \in Packages |-> 0]

\* Package p is not the framework and is not detected to depend on it: no
\* directory of its archive has the framework's name in its name, and the
\* dependencies of its manifest do not mention it
NotDetected(p) == ~is_bepinex(p) /\ depends_on_bepinex(archive[p]) = "False"

C14_ThreeOutcomes ==
    \A p \in Packages :
        results[p] # NoTuple => results[p] \in {<<1, 1, 0>>, <<0, 0, 0>>, <<0, 0, 1>>}

\* C14 as amended: the result of every package is (0, 0, 1) when its
\* download failed with an HTTP status, and else (d, i, 0) where d is 1
\* exactly when the package was fetched in this run and i is 1 exactly when
\* this run's install copied a file of it: (1, 1, 0), (1, 0, 0), (0, 1, 0)
\* and (0, 0, 0) are all produced.
C14_FiveOutcomes ==
    \A p \in Packages :
        results[p] # NoTuple
            => /\ results[p] \in {<<1, 1, 0>>, <<1, 0, 0>>, <<0, 1, 0>>,
                                  <<0, 0, 0>>, <<0, 0, 1>>}
               /\ results[p][3] = 1 <=> response[p] = "http_error"
               /\ results[p][1] = 1 <=> response[p] = "ok"
               /\ results[p][2] = 1 <=> CopiedBy(p) # {}

C14_Witness ==
    \E m, n \in mods :
        /\ results[m] = <<0, 1, 0>> /\ gets[m] = 0 /\ CopiedBy(m) # {}
        /\ results[n] = <<1, 0, 0>> /\ response[n] = "ok" /\ CopiedBy(n) = {}

\* A path lies under <game_dir>/BepInEx/plugins, patchers or config
UnderLayout(path) ==
    \E d \in RecognizedSubDirs :
        StartsWith(path, GameDir \o <<OS_SEP>> \o BEPINEX \o <<OS_SEP>> \o d \o <<OS_SEP>>)

\* C15: on-disk layout: the path install copies a file of a regular package
\* to lies under <game_dir>/BepInEx/plugins, <game_dir>/BepInEx/patchers
\* or <game_dir>/BepInEx/config, whatever the file's path in the archive.
C15_OnDiskLayout ==
    (pResolved # <<>> /\ ~pIsBepinex) => UnderLayout(pResolved)

\* C16: framework already installed: when line 218 found the framework
\* directory and a framework descriptor was supplied, the framework's task
\* never starts (no GET for it, no file of it copied), main goes straight
\* to the pool, and when the run has ended every regular package's task
\* has run.
C16_FrameworkAlreadyInstalled ==
    (wasInstalled = "yes" /\ bepinex_mod)
        => /\ pc[FW] = "idle" /\ gets[FW] = 0 /\ response[FW] = "none"
           /\ CopiedBy(FW) = {}
           /\ mainpc \in {"pool", "exited"}
           /\ mainpc = "exited" => \A m \in mods : pc[m] \in {"done", "raised"}

C16_Witness ==
    /\ wasInstalled = "yes" /\ bepinex_mod /\ run = 1
    /\ mainpc = "exited" /\ summary = <<2, 2, 0, 2>>
    /\ \A f \in fsFiles : f.by # FW

\* C17: empty batch: a run whose set of regular packages is empty and that
\* reached the pool stage (the framework installed in this run or already
\* there) prints the summary and ends with exit code 0.
C17_EmptyBatch ==
    (mainpc = "exited" /\ PoolEntered /\ mods = {})
        => summary # NoTuple /\ exitCode = 0 /\ exitKind = "return"

FetchReturned(p) ==
    \/ response[p] = "ok" /\ gets[p] = 1 /\ ret_dl[p] = 1
    \/ response[p] = "none" /\ gets[p] = 0 /\ ret_dl[p] = 0 /\ pc[p] # "idle"

\* C19: fetch before install per package: a package's install is under way
\* or has copied a file only if its own fetch returned; a package whose
\* fetch failed never enters install, copies no file, and its result, if it
\* has one, has downloaded = 0 and installed = 0.
C19_FetchBeforeInstall ==
    \A p \in Packages :
        /\ (pc[p] \in {"install", "copy"} \/ installed[p] \/ CopiedBy(p) # {})
              => FetchReturned(p)
        /\ (pc[p] = "done" /\ results[p][3] = 0) => FetchReturned(p)
        /\ DownloadFailed(p)
              => /\ pc[p] \in {"done", "raised"}
                 /\ ~installed[p] /\ CopiedBy(p) = {}
                 /\ results[p] # NoTuple => results[p][1] = 0 /\ results[p][2] = 0

C19_Witness ==
    \E m, n \in mods :
        /\ results[m] = <<0, 0, 1>> /\ response[m] = "http_error"
        /\ pc[n] = "copy" /\ response[n] = "ok"
        /\ InstallPaths(m) # {} /\ CopiedBy(m) = {}

====
